---- MODULE Spec2Model ----
(***************************************************************************)
(* A model of haproxy.js: the generator of HAProxy configuration text for  *)
(* a replicated proxy placed in front of Quilt services.                   *)
(*                                                                         *)
(* Text is modelled as a sequence of pieces.  A piece is what one call of  *)
(* util.format (or one string literal, or the rendered template) adds to   *)
(* the text: [kind |-> the pattern used, args |-> the formatted            *)
(* arguments].  Text(pieces) is the string the pieces spell out.           *)
(***************************************************************************)
EXTENDS Integers, Sequences, FiniteSets, TLC

(***************************************************************************)
(* Bounds of the model.                                                    *)
(***************************************************************************)
\* The largest number of endpoints all services have together.
MaxEndpoints == 2
\* The number of HAProxy replicas the caller asks for.
NumReplicas == 2

\* The services of the deployment, by name (names are unique).
ServiceNames == {"svcA", "svcB"}
\* The addresses the orchestration layer hands out.
Addrs == {"10.0.0.1", "10.0.0.2"}
\* The domain names a routing map may use.
Domains == {"a.com", "b.com"}
\* The balance argument of a call: omitted, or a token.
Undefined == "<undefined>"
BalanceArgs == {Undefined, "leastconn"}

(***************************************************************************)
(* Module constants of haproxy.js.                                         *)
(***************************************************************************)
image == "haproxy:1.7"
configPath == "/usr/local/etc/haproxy/haproxy.cfg"
internalPort == 80
exposedPort == 80

(***************************************************************************)
(* JavaScript values.                                                      *)
(***************************************************************************)
\* A Service object; its identity is its name.
ServiceObj(name) == [type |-> "Service", name |-> name]
\* An Array.
ArrayObj(items) == [type |-> "Array", items |-> items]
\* Array.isArray
IsArray(v) == v.type = "Array"

\* An object used as a domain map, as for-in enumerates it: the own
\* properties in insertion order, then the enumerable properties inherited
\* from the prototype chain.  No key is enumerated twice.
DomainMaps ==
  {m \in UNION {[1..k -> [domain : Domains, service : ServiceNames,
                          own : BOOLEAN]] : k \in 0..Cardinality(Domains)} :
     /\ \A i, j \in DOMAIN m : m[i].domain = m[j].domain => i = j
     /\ \A i, j \in DOMAIN m : (i < j /\ m[j].own) => m[i].own}

\* domainToService.hasOwnProperty(domain), for the i-th enumerated key
hasOwnProperty(domainToService, i) == domainToService[i].own
\* domainToService[domain], for the i-th enumerated key
Lookup(domainToService, i) == ServiceObj(domainToService[i].service)

(***************************************************************************)
(* Text.                                                                   *)
(***************************************************************************)
\* util.format's %d of a non-negative integer
FormatD(n) == ToString(n)

\* util.format(pattern, ...args), pattern named by kind
Format(kind, args) == [kind |-> kind, args |-> args]

\* The string literal '\n'
Newline == Format("newline", <<>>)

\* The text of haproxy.cfg (the Mustache template beside haproxy.js) with
\* {{port}} replaced.
MustacheRender(port) == Format("template", <<FormatD(port)>>)

\* The text of the template haproxy.cfg with the port filled in.  The file
\* is not among the sources; it holds the global and default settings and
\* the frontend's listening port.
haproxyCfg(port) == "frontend http-in\n    bind *:" \o port

\* The string one piece spells out.
Render(p) ==
  CASE p.kind = "backend" ->
         "\nbackend " \o p.args[1] \o "\n    balance " \o p.args[2]
           \o "\n    cookie SERVERID insert indirect nocache"
    [] p.kind = "server" ->
         "\n    server " \o p.args[1] \o " " \o p.args[2] \o ":" \o p.args[3]
           \o " check resolvers dns cookie " \o p.args[4]
    [] p.kind = "default_backend" ->
         "\n    default_backend " \o p.args[1]
    [] p.kind = "acl" ->
         "\n    acl " \o p.args[1] \o " hdr(host) -i " \o p.args[2]
    [] p.kind = "use_backend" ->
         "\n    use_backend " \o p.args[1] \o " if " \o p.args[2]
    [] p.kind = "newline" -> "\n"
    [] p.kind = "template" -> haproxyCfg(p.args[1])

\* The string a sequence of pieces spells out.
RECURSIVE Text(_)
Text(ps) == IF ps = <<>> THEN "" ELSE Render(Head(ps)) \o Text(Tail(ps))

(***************************************************************************)
(* State.                                                                  *)
(***************************************************************************)
VARIABLES
  args,         \* the call the deployment script makes: entry point and arguments
  endpoints,    \* per service, the list service.children() returns now
  connections,  \* the allowFrom grants made so far, in order
  prev,         \* the generation before the last one, or NoGeneration
  last          \* the last generation, or NoGeneration

vars == <<args, endpoints, connections, prev, last>>

NoGeneration == <<>>

(***************************************************************************)
(* haproxy.js.                                                             *)
(***************************************************************************)
\* A parameter with a default value: the default applies when the argument
\* is undefined.
DefaultParam(arg, default) == IF arg = Undefined THEN default ELSE arg

\* backendName(service)
backendName(service) == service.name

\* service.children(): the service's endpoint list as it is now
children(service) == endpoints[service.name]

\* A server name that leaves the position out.
serverName_noIndex(name, i) == name

\* util.format('%s-%d', name, i)
serverName(name, i) == name \o "-" \o FormatD(i)

\* util.format(serverPattern, serverName, addrs[i], internalPort, serverName)
\* for the 0-based position i
serverLine(name, addrs, i) ==
  Format("server", <<serverName(name, i), addrs[i + 1],
                     FormatD(internalPort), serverName(name, i)>>)

\* A forEach callback that skips a service without endpoints.
backendBlock_skipEmpty(service, balance) ==
  LET name == backendName(service)
      addrs == children(service)
  IN  IF addrs = <<>> THEN <<>>
      ELSE <<Format("backend", <<name, balance>>)>>
             \o [i \in 1..Len(addrs) |-> serverLine(name, addrs, i - 1)]
             \o <<Newline>>

\* The body of the forEach callback of createBackendConfigs: what one
\* service adds to config.
backendBlock(service, balance) ==
  LET name == backendName(service)
      addrs == children(service)
  IN  <<Format("backend", <<name, balance>>)>>
        \o [i \in 1..Len(addrs) |-> serverLine(name, addrs, i - 1)]
        \o <<Newline>>

RECURSIVE forEachBackend(_, _)
forEachBackend(list, balance) ==
  IF list = <<>> THEN <<>>
  ELSE backendBlock(Head(list), balance) \o forEachBackend(Tail(list), balance)

\* A createBackendConfigs that writes the default token whatever it is given.
createBackendConfigs_fixedBalance(services, balance) ==
  LET list == IF IsArray(services) THEN services.items ELSE <<services>>
  IN  forEachBackend(list, "roundrobin")

\* A createBackendConfigs whose config is kept between calls and is not
\* reset.
createBackendConfigs_accumulate(services, balance) ==
  LET list == IF IsArray(services) THEN services.items ELSE <<services>>
      config == IF last = NoGeneration THEN <<>> ELSE last.backendConfig
  IN  config \o forEachBackend(list, balance)

\* createBackendConfigs(services, balance)
createBackendConfigs(services, balance) ==
  LET list == IF IsArray(services) THEN services.items ELSE <<services>>
  IN  forEachBackend(list, balance)

\* The calls of service.children() that createBackendConfigs(services,
\* balance) makes, in order: one per entry of the array, each with the
\* service asked and the list it answered.
childrenCalls(services) ==
  LET list == IF IsArray(services) THEN services.items ELSE <<services>>
  IN  [i \in 1..Len(list) |->
         [service |-> backendName(list[i]), addrs |-> children(list[i])]]

\* The acl lines (which = "acl") or the use_backend lines (which =
\* "use_backend") the for-in loop of urlRoutingConfig accumulates from the
\* i-th enumerated key on.
RECURSIVE routingLines(_, _, _)
routingLines(domainToService, i, which) ==
  IF i > Len(domainToService) THEN <<>>
  ELSE IF ~hasOwnProperty(domainToService, i)
       THEN routingLines(domainToService, i + 1, which)
       ELSE LET name == backendName(Lookup(domainToService, i))
                match == name \o "_req"
                line == IF which = "acl"
                        THEN Format("acl", <<match, domainToService[i].domain>>)
                        ELSE Format("use_backend", <<name, match>>)
            IN  <<line>> \o routingLines(domainToService, i + 1, which)

\* A urlRoutingConfig that appends each key's acl line and use_backend line
\* to one string.
RECURSIVE routingPairs(_, _)
routingPairs(domainToService, i) ==
  IF i > Len(domainToService) THEN <<>>
  ELSE IF ~hasOwnProperty(domainToService, i)
       THEN routingPairs(domainToService, i + 1)
       ELSE LET name == backendName(Lookup(domainToService, i))
                match == name \o "_req"
            IN  <<Format("acl", <<match, domainToService[i].domain>>),
                  Format("use_backend", <<name, match>>)>>
                  \o routingPairs(domainToService, i + 1)
urlRoutingConfig_interleaved(domainToService) ==
  routingPairs(domainToService, 1)

\* urlRoutingConfig(domainToService)
urlRoutingConfig(domainToService) ==
  LET acls == routingLines(domainToService, 1, "acl")
      backendRules == routingLines(domainToService, 1, "use_backend")
  IN  acls \o backendRules

\* A createConfigFiles that puts the backend text before the frontend text.
createConfigFiles_backendFirst(frontendConfig, backendConfig) ==
  LET config == <<MustacheRender(exposedPort)>>
                  \o backendConfig \o <<Newline>> \o frontendConfig
  IN  configPath :> config

\* createConfigFiles(frontendConfig, backendConfig)
createConfigFiles(frontendConfig, backendConfig) ==
  LET config == <<MustacheRender(exposedPort)>>
                  \o frontendConfig \o <<Newline>> \o backendConfig
  IN  configPath :> config

\* createHapService(n, services, files): the new haproxy Service, and the
\* grants service.allowFrom(haproxy, internalPort) it makes, in order.
createHapService(n, services, files) ==
  LET list == IF IsArray(services) THEN services.items ELSE <<services>>
      haproxy == [type |-> "Service", name |-> "haproxy", image |-> image,
                  command |-> <<"haproxy-systemd-wrapper", "-p",
                                "/run/haproxy.pid", "-f", configPath>>,
                  replicas |-> n, files |-> files]
  IN  [haproxy |-> haproxy,
       allowed |-> [i \in 1..Len(list) |->
                      [from |-> "haproxy", to |-> list[i].name,
                       port |-> internalPort]]]

\* A frontend that routes to the service through a host rule.
defaultBackendConfig_hostRule(service) ==
  <<Format("acl", <<backendName(service) \o "_req", backendName(service)>>),
    Format("use_backend", <<backendName(service),
                            backendName(service) \o "_req">>)>>

\* The default_backend line of singleServiceLoadBalancer.
defaultBackendConfig(service) ==
  <<Format("default_backend", <<backendName(service)>>)>>

\* singleServiceLoadBalancer(n, service, balance = 'roundrobin'): its locals
\* when it returns.
singleServiceLoadBalancer(n, service, balanceArg) ==
  LET balance == DefaultParam(balanceArg, "roundrobin")
      frontendConfig == defaultBackendConfig(service)
      backendConfig == createBackendConfigs(service, balance)
      files == createConfigFiles(frontendConfig, backendConfig)
  IN  [frontendConfig |-> frontendConfig, backendConfig |-> backendConfig,
       files |-> files, reads |-> childrenCalls(service),
       hap |-> createHapService(n, service, files)]

\* The services array the first loop of withURLrouting builds, from the
\* i-th enumerated key on.
RECURSIVE pushServices(_, _)
pushServices(domainToService, i) ==
  IF i > Len(domainToService) THEN <<>>
  ELSE IF hasOwnProperty(domainToService, i)
       THEN <<Lookup(domainToService, i)>> \o pushServices(domainToService, i + 1)
       ELSE pushServices(domainToService, i + 1)

\* withURLrouting(n, domainToService, balance = 'roundrobin'): its locals
\* when it returns.
withURLrouting(n, domainToService, balanceArg) ==
  LET balance == DefaultParam(balanceArg, "roundrobin")
      services == ArrayObj(pushServices(domainToService, 1))
      frontendConfig == urlRoutingConfig(domainToService)
      backendConfig == createBackendConfigs(services, balance)
      files == createConfigFiles(frontendConfig, backendConfig)
  IN  [frontendConfig |-> frontendConfig, backendConfig |-> backendConfig,
       files |-> files, reads |-> childrenCalls(services),
       hap |-> createHapService(n, services, files)]

(***************************************************************************)
(* The state machine.                                                      *)
(***************************************************************************)
\* The calls a deployment script can make.
Calls ==
  [entry : {"singleServiceLoadBalancer"}, n : {NumReplicas},
   target : {ServiceObj(s) : s \in ServiceNames}, balance : BalanceArgs]
  \cup
  [entry : {"withURLrouting"}, n : {NumReplicas},
   target : DomainMaps, balance : BalanceArgs]

TotalEndpoints == LET RECURSIVE Sum(_)
                      Sum(S) == IF S = {} THEN 0
                                ELSE LET s == CHOOSE x \in S : TRUE
                                     IN  Len(endpoints[s]) + Sum(S \ {s})
                  IN  Sum(ServiceNames)

Init ==
  /\ args \in Calls
  /\ endpoints = [s \in ServiceNames |-> <<>>]
  /\ connections = <<>>
  /\ prev = NoGeneration
  /\ last = NoGeneration

\* The record of one generation: the endpoint lists at the time of the
\* call, the reads of endpoint lists the call made, and what the entry
\* point computed.
Generation(r) ==
  [snapshot |-> endpoints, reads |-> r.reads,
   frontendConfig |-> r.frontendConfig,
   backendConfig |-> r.backendConfig, files |-> r.files,
   haproxy |-> r.hap.haproxy]

\* The history keeps the first two generations of a run, which the
\* properties compare with each other; a run ends with the second.
Record(r) ==
  /\ prev = NoGeneration
  /\ IF last = NoGeneration
     THEN last' = Generation(r) /\ UNCHANGED prev
     ELSE prev' = last /\ last' = Generation(r)
  /\ connections' = connections \o r.hap.allowed
  /\ UNCHANGED <<args, endpoints>>

\* The deployment script calls singleServiceLoadBalancer.
CallSingleServiceLoadBalancer ==
  /\ args.entry = "singleServiceLoadBalancer"
  /\ Record(singleServiceLoadBalancer(args.n, args.target, args.balance))

\* The deployment script calls withURLrouting.
CallWithURLrouting ==
  /\ args.entry = "withURLrouting"
  /\ Record(withURLrouting(args.n, args.target, args.balance))

\* The orchestration layer starts a replica of service s at address a.
AddEndpoint ==
  /\ prev = NoGeneration
  /\ TotalEndpoints < MaxEndpoints
  /\ \E s \in ServiceNames, a \in Addrs :
       endpoints' = [endpoints EXCEPT ![s] = Append(@, a)]
  /\ UNCHANGED <<args, connections, prev, last>>

\* The orchestration layer stops the i-th replica of service s.
RemoveEndpoint ==
  /\ prev = NoGeneration
  /\ \E s \in ServiceNames : \E i \in 1..Len(endpoints[s]) :
       endpoints' = [endpoints EXCEPT ![s] =
                       SubSeq(@, 1, i - 1) \o SubSeq(@, i + 1, Len(@))]
  /\ UNCHANGED <<args, connections, prev, last>>

Next ==
  \/ CallSingleServiceLoadBalancer
  \/ CallWithURLrouting
  \/ AddEndpoint
  \/ RemoveEndpoint

Spec == Init /\ [][Next]_vars

(***************************************************************************)
(* Vocabulary of the properties.                                           *)
(***************************************************************************)
\* The generations recorded so far.
Generations == {g \in {prev, last} : g # NoGeneration}

\* The configuration document of a generation, as pieces and as a string.
Doc(g) == g.files[configPath]
DocText(g) == Text(Doc(g))

IsSingle == args.entry = "singleServiceLoadBalancer"
IsRouting == args.entry = "withURLrouting"

\* The own keys of the routing map, in iteration order.
OwnKeys == SelectSeq(args.target, LAMBDA e : e.own)

\* The names of the services the call passes to the backend generator, in
\* order.
ServiceList ==
  IF IsSingle THEN <<args.target.name>>
  ELSE [i \in 1..Len(OwnKeys) |-> OwnKeys[i].service]

\* The services the routing input refers to.
Referenced == {ServiceList[i] : i \in DOMAIN ServiceList}

\* The pieces of one kind in a text, in order, and their number.
Lines(text, kind) == SelectSeq(text, LAMBDA p : p.kind = kind)
Count(text, kind) == Len(Lines(text, kind))

\* The backend blocks of a backend text: the k-th block runs from the k-th
\* backend header up to the next header or the end of the text.
BlockStarts(text) == {i \in DOMAIN text : text[i].kind = "backend"}
NthStart(text, k) ==
  CHOOSE i \in BlockStarts(text) :
    Cardinality({j \in BlockStarts(text) : j <= i}) = k
Block(text, k) ==
  LET from == NthStart(text, k)
      to == IF k = Cardinality(BlockStarts(text)) THEN Len(text)
            ELSE NthStart(text, k + 1) - 1
  IN  SubSeq(text, from, to)

\* The addresses of a block's server lines, in order.
BlockAddrs(block) ==
  LET servers == Lines(block, "server")
  IN  [i \in 1..Len(servers) |-> servers[i].args[2]]

(***************************************************************************)
(* C1.  The backend section of a withURLrouting document contains exactly  *)
(* one backend block per distinct service of the map: a service under two  *)
(* domain keys gets one block, not one per key.                            *)
(***************************************************************************)
C1_OneBlockPerDistinctService ==
  \A g \in Generations :
    IsRouting =>
      /\ Count(g.backendConfig, "backend") = Cardinality(Referenced)
      /\ \A s \in Referenced :
           Cardinality({i \in BlockStarts(g.backendConfig) :
                          g.backendConfig[i].args[1] = s}) = 1

(***************************************************************************)
(* C2.  For a map with N own keys, the frontend text of urlRoutingConfig   *)
(* is N acl lines followed by N use_backend lines: no use_backend line     *)
(* comes before an acl line, the i-th acl tests the Host header against    *)
(* the i-th own key under the name <backendName>_req, and the i-th         *)
(* use_backend names the same backend and the same match id.               *)
(***************************************************************************)
C2_AclsThenUseBackends ==
  \A g \in Generations :
    IsRouting =>
      LET fc == g.frontendConfig
          N == Len(OwnKeys)
      IN  /\ Len(fc) = 2 * N
          /\ Count(fc, "acl") = N
          /\ Count(fc, "use_backend") = N
          /\ \A i, j \in DOMAIN fc :
               (fc[i].kind = "use_backend" /\ fc[j].kind = "acl") => j < i
          /\ \A i \in 1..N :
               /\ fc[i] = Format("acl", <<OwnKeys[i].service \o "_req",
                                          OwnKeys[i].domain>>)
               /\ Render(fc[i]) = "\n    acl " \o OwnKeys[i].service
                                    \o "_req hdr(host) -i " \o OwnKeys[i].domain
               /\ fc[N + i].kind = "use_backend"
               /\ fc[N + i].args = <<OwnKeys[i].service, fc[i].args[1]>>

\* A routing generation from a map with two own keys.
C2_Witness ==
  /\ IsRouting
  /\ last # NoGeneration
  /\ Len(OwnKeys) = 2
  /\ Len(last.frontendConfig) = 4

(***************************************************************************)
(* C3.  For a non-empty list of services, the backend text has exactly one *)
(* backend block per list entry, in input order, and each block has        *)
(* exactly one server line per endpoint of its service, in the list's      *)
(* order.  A service without endpoints still gets its block (header,       *)
(* balance and cookie directives), with no server line.                    *)
(***************************************************************************)
C3_OneBlockPerEntry ==
  \A g \in Generations :
    ServiceList # <<>> =>
      LET bc == g.backendConfig
      IN  /\ bc # <<>>
          /\ bc[1].kind = "backend"
          /\ Count(bc, "backend") = Len(ServiceList)
          /\ \A k \in 1..Len(ServiceList) :
               LET block == Block(bc, k)
                   eps == g.snapshot[ServiceList[k]]
               IN  /\ block[1].args[1] = ServiceList[k]
                   /\ Len(block) = Len(eps) + 2
                   /\ \A i \in 1..Len(eps) :
                        block[1 + i].kind = "server"
                          /\ block[1 + i].args[2] = eps[i]
                   /\ block[Len(block)] = Newline

\* A generation over two list entries, one without endpoints and one with
\* two different endpoints.
C3_Witness ==
  /\ last # NoGeneration
  /\ Len(ServiceList) = 2
  /\ \E k \in 1..2 :
       /\ last.snapshot[ServiceList[k]] = <<>>
       /\ Len(Block(last.backendConfig, k)) = 2
  /\ \E k \in 1..2 :
       /\ Len(last.snapshot[ServiceList[k]]) = 2
       /\ last.snapshot[ServiceList[k]][1] # last.snapshot[ServiceList[k]][2]
       /\ Count(Block(last.backendConfig, k), "server") = 2

(***************************************************************************)
(* C4.  The server line of the endpoint at 0-based position i has server   *)
(* name <serviceName>-<i>, that same name as cookie value, the endpoint's  *)
(* address and port 80; so no two server lines of one block share a server *)
(* name or a cookie value, whatever the endpoint list.                     *)
(***************************************************************************)
C4_ServerIdentifiers ==
  \A g \in Generations :
    \A k \in 1..Count(g.backendConfig, "backend") :
      LET block == Block(g.backendConfig, k)
          name == block[1].args[1]
          servers == Lines(block, "server")
      IN  /\ \A i \in 1..Len(servers) :
               /\ servers[i].args[1] = name \o "-" \o ToString(i - 1)
               /\ servers[i].args[4] = servers[i].args[1]
               /\ servers[i].args[2] = g.snapshot[name][i]
               /\ servers[i].args[3] = "80"
               /\ Render(servers[i]) =
                    "\n    server " \o name \o "-" \o ToString(i - 1) \o " "
                      \o g.snapshot[name][i] \o ":80 check resolvers dns cookie "
                      \o name \o "-" \o ToString(i - 1)
          /\ \A i, j \in 1..Len(servers) :
               (servers[i].args[1] = servers[j].args[1]
                  \/ servers[i].args[4] = servers[j].args[4]) => i = j

\* A block with two server lines for one repeated address.
C4_Witness ==
  /\ last # NoGeneration
  /\ \E k \in 1..Count(last.backendConfig, "backend") :
       LET servers == Lines(Block(last.backendConfig, k), "server")
       IN  Len(servers) = 2 /\ servers[1].args[2] = servers[2].args[2]

(***************************************************************************)
(* C5.  A singleServiceLoadBalancer document contains exactly one          *)
(* default_backend line, naming the service's backend, and its frontend    *)
(* section contains no acl line and no use_backend line.                   *)
(***************************************************************************)
C5_SingleDefaultBackend ==
  \A g \in Generations :
    IsSingle =>
      /\ Count(Doc(g), "default_backend") = 1
      /\ Lines(Doc(g), "default_backend")[1].args = <<args.target.name>>
      /\ g.frontendConfig = Lines(Doc(g), "default_backend")
      /\ Count(g.frontendConfig, "acl") = 0
      /\ Count(g.frontendConfig, "use_backend") = 0
      /\ Text(g.frontendConfig) = "\n    default_backend " \o args.target.name

\* A singleServiceLoadBalancer generation for a service with an endpoint.
C5_Witness ==
  /\ IsSingle
  /\ last # NoGeneration
  /\ last.snapshot[args.target.name] # <<>>

(***************************************************************************)
(* C6.  Every backend block's balance directive carries the balance token  *)
(* the caller passed, unchanged; when the caller omits it, both entry      *)
(* points use the default token.                                           *)
(***************************************************************************)
BalanceIs(token) ==
  \A g \in Generations :
    \A i \in BlockStarts(g.backendConfig) :
      g.backendConfig[i].args[2] =
        (IF args.balance = Undefined THEN token ELSE args.balance)

\* As claimed: the default token is "round-robin".
C6_DefaultRoundRobinHyphen == BalanceIs("round-robin")

\* As amended: the default token is "roundrobin".
C6_BalanceVerbatim == BalanceIs("roundrobin")

\* A generation with a backend block, made without a balance argument.
C6_Witness ==
  /\ args.balance = Undefined
  /\ last # NoGeneration
  /\ BlockStarts(last.backendConfig) # {}

(***************************************************************************)
(* C7.  createConfigFiles returns a mapping with exactly one entry, keyed  *)
(* by the config path, whose value is the rendered preamble, the frontend  *)
(* text and the backend text in that order.                                *)
(***************************************************************************)
Preamble == Text(<<MustacheRender(80)>>)

\* As claimed: a newline separates the preamble from the frontend text and
\* the frontend text from the backend text.
C7_NewlineSeparatedThrice ==
  \A g \in Generations :
    /\ DOMAIN g.files = {"/usr/local/etc/haproxy/haproxy.cfg"}
    /\ DocText(g) = Preamble \o "\n" \o Text(g.frontendConfig) \o "\n"
                      \o Text(g.backendConfig)

\* As amended: the frontend text follows the preamble directly, and one
\* newline separates the frontend text from the backend text.
C7_ConfigFile ==
  \A g \in Generations :
    /\ DOMAIN g.files = {"/usr/local/etc/haproxy/haproxy.cfg"}
    /\ DocText(g) = Preamble \o Text(g.frontendConfig) \o "\n"
                      \o Text(g.backendConfig)

\* A generation whose frontend text and backend text are not empty.
C7_Witness ==
  /\ last # NoGeneration
  /\ last.frontendConfig # <<>>
  /\ Count(last.backendConfig, "server") > 0

(***************************************************************************)
(* C8.  Two invocations with the same routing input, the same balance      *)
(* token and the same endpoint snapshot of every service produce           *)
(* byte-identical documents: nothing carried over from the earlier         *)
(* invocation influences the later one.                                    *)
(***************************************************************************)
C8_Deterministic ==
  (prev # NoGeneration /\ last # NoGeneration
     /\ \A s \in Referenced : prev.snapshot[s] = last.snapshot[s])
    => /\ DocText(prev) = DocText(last)
       /\ prev.files = last.files

\* Two generations that read the same non-empty endpoint lists, the second
\* one after the grants of the first.
C8_Witness ==
  /\ prev # NoGeneration
  /\ last # NoGeneration
  /\ prev.snapshot = last.snapshot
  /\ \E s \in Referenced : prev.snapshot[s] # <<>>
  /\ connections # <<>>
  /\ Count(Doc(last), "server") > 0

(***************************************************************************)
(* C9.  If between two generations one service's endpoint list grows from  *)
(* [a] to [a,b] and nothing else changes, the second document is the first *)
(* one with one server line <name>-1 for b added after the <name>-0 line   *)
(* of that service's backend block; everything else is unchanged.          *)
(***************************************************************************)
C9_GrowthAddsOneLine ==
  (prev # NoGeneration /\ last # NoGeneration) =>
    \A s \in Referenced : \A a, b \in Addrs :
      (/\ prev.snapshot[s] = <<a>>
       /\ last.snapshot[s] = <<a, b>>
       /\ \A t \in ServiceNames \ {s} : prev.snapshot[t] = last.snapshot[t])
      => \E k \in 1..Len(Doc(prev)) :
           LET added == Format("server", <<s \o "-1", b, "80", s \o "-1">>)
               before == SubSeq(Doc(prev), 1, k)
               after == SubSeq(Doc(prev), k + 1, Len(Doc(prev)))
           IN  /\ Doc(prev)[k] = Format("server", <<s \o "-0", a, "80", s \o "-0">>)
               /\ Doc(last) = before \o <<added>> \o after
               /\ DocText(last) =
                    Text(before) \o "\n    server " \o s \o "-1 " \o b
                      \o ":80 check resolvers dns cookie " \o s \o "-1"
                      \o Text(after)

(***************************************************************************)
(* C10.  With the orchestration layer changing endpoint lists between      *)
(* generation calls, every generation call reads each service's endpoint   *)
(* list once, as one snapshot, and never reads it again; so all server     *)
(* lines the call emits for a service come from one state of the service's *)
(* endpoint list, and no later step, another generation call included,     *)
(* alters the output of a generation.                                      *)
(***************************************************************************)
\* Every block of g lists the addresses eps has for the block's service.
ServersFrom(g, eps) ==
  \A k \in 1..Count(g.backendConfig, "backend") :
    LET block == Block(g.backendConfig, k)
    IN  BlockAddrs(block) = eps[block[1].args[1]]

\* The number of times generation g read the endpoint list of service s.
ReadsOf(g, s) == Cardinality({i \in DOMAIN g.reads : g.reads[i].service = s})

\* The generations recorded so far, oldest first.
History ==
  (IF prev = NoGeneration THEN <<>> ELSE <<prev>>)
    \o (IF last = NoGeneration THEN <<>> ELSE <<last>>)

C10_OneReadPerService ==
  /\ [](\A g \in Generations :
          /\ \A s \in ServiceNames : ReadsOf(g, s) <= 1
          /\ \A s \in Referenced : ReadsOf(g, s) = 1
          /\ \A i \in DOMAIN g.reads :
               g.reads[i].addrs = g.snapshot[g.reads[i].service]
          /\ ServersFrom(g, g.snapshot))
  /\ [][\/ History' = History
        \/ /\ Len(History') = Len(History) + 1
           /\ SubSeq(History', 1, Len(History)) = History]_vars

====
